---------------------------- MODULE Spec2Model ----------------------------
(***************************************************************************)
(* A model of python-server-client: Connection (framing, send, receive,    *)
(* close), Client (run loop), ClientHandler and Server (polling loop).     *)
(*                                                                         *)
(* Four specifications share the variables:                                *)
(*   SpecCtor   Connection.__init__ applied to drawn arguments             *)
(*   SpecObjects several Connections constructed in one process            *)
(*   SpecConn   one Client object: its run-loop thread, an application     *)
(*              thread calling send()/close()/connect(), the remote peer   *)
(*   SpecServer Server.run, the thread calling stop(), connecting peers    *)
(***************************************************************************)
EXTENDS Integers, Sequences, FiniteSets, TLC

(***************************************************************************)
(* Bounds of the model.                                                    *)
(***************************************************************************)
MaxPeerMsgs == 2
MaxAppCalls == 2
BufferSize == 2
MaxHandlers == 2
MaxQueue == 2
MaxConnects == 1
MaxStops == 1
MaxObjects == 2

(***************************************************************************)
(* Text and bytes.  A str is a sequence of characters, bytes a sequence    *)
(* of integers.  str.encode() is UTF-8: one byte for ASCII, two for a      *)
(* Latin-1 letter, and no encoding at all for a lone surrogate.            *)
(***************************************************************************)
Chars == {"a", "+", "eacute", "surrogate", "e", "x", "i", "t"}

UTF8(c) ==
  CASE c = "a" -> <<97>>
    [] c = "+" -> <<43>>
    [] c = "e" -> <<101>>
    [] c = "x" -> <<120>>
    [] c = "i" -> <<105>>
    [] c = "t" -> <<116>>
    [] c = "eacute" -> <<195, 169>>
    [] OTHER -> <<>>

RECURSIVE Encode(_)
Encode(s) == IF s = <<>> THEN <<>> ELSE UTF8(Head(s)) \o Encode(Tail(s))

\* str.encode() raises UnicodeEncodeError on a lone surrogate
CanEncode(s) == \A i \in 1..Len(s) : s[i] # "surrogate"

NoStr == <<"undecodable">>

\* bytes.decode(): the str, or NoStr where Python raises UnicodeDecodeError
RECURSIVE Decode(_)
Decode(b) ==
  IF b = <<>> THEN <<>>
  ELSE LET rest(n) == Decode(SubSeq(b, n + 1, Len(b)))
           cons(c, n) == IF rest(n) = NoStr THEN NoStr ELSE <<c>> \o rest(n)
       IN  CASE b[1] = 97 -> cons("a", 1)
             [] b[1] = 43 -> cons("+", 1)
             [] b[1] = 101 -> cons("e", 1)
             [] b[1] = 120 -> cons("x", 1)
             [] b[1] = 105 -> cons("i", 1)
             [] b[1] = 116 -> cons("t", 1)
             [] b[1] = 195 /\ Len(b) >= 2 /\ b[2] = 169 -> cons("eacute", 2)
             [] OTHER -> NoStr

IsPrefixAt(b, p, i) ==
  /\ i + Len(p) - 1 <= Len(b)
  /\ \A k \in 1..Len(p) : b[i + k - 1] = p[k]

\* bytes.split(sep): the pieces between the non-overlapping occurrences of
\* sep, found left to right; always at least one piece
RECURSIVE SplitFrom(_, _, _, _)
SplitFrom(b, sep, start, i) ==
  IF i > Len(b) THEN <<SubSeq(b, start, Len(b))>>
  ELSE IF IsPrefixAt(b, sep, i)
       THEN <<SubSeq(b, start, i - 1)>> \o SplitFrom(b, sep, i + Len(sep), i + Len(sep))
       ELSE SplitFrom(b, sep, start, i + 1)

Split(b, sep) == SplitFrom(b, sep, 1, 1)

VARIABLES
  lockIsType,      \* threading.Lock is a class (3.13 on) or a factory function
  ctorArgs, ctorResult,
  made,            \* the Connections constructed so far, in order
  queues,          \* the contents of each Queue object
  attrs, separator, socket_lock, sockClosed, peerClosed, inbuf, sentMsgs,
  nread, message_queue, total, wait, pc, call, lastSend, client_exit_queue,
  outbuf, nAppCalls,
  client_handlers, banned, server_queue, exit_queue, pending, pcS, idx,
  listenSock, peerSock, handlerClosed, updated, raised, exitPosted,
  banApplied, nConnects, nStops, srvFault,
  amount,          \* Server.amount, the argument of __init__
  removed          \* the handlers taken out of client_handlers by "exit"

ctorVars == <<ctorArgs, ctorResult, made, queues>>
connVars == <<attrs, separator, socket_lock, sockClosed, peerClosed, inbuf,
              sentMsgs, nread, message_queue, total, wait, pc, call, lastSend,
              client_exit_queue, outbuf, nAppCalls>>
srvVars == <<client_handlers, banned, server_queue, exit_queue, pending, pcS,
             idx, listenSock, peerSock, handlerClosed, updated, raised,
             exitPosted, banApplied, nConnects, nStops, srvFault, amount,
             removed>>
vars == <<lockIsType, ctorVars, connVars, srvVars>>

(***************************************************************************)
(* Connection.__init__                                                     *)
(***************************************************************************)
AddressArgs == {"None", "tuple", "badhost", "badport", "nontuple"}
SockArgs == {"None", "socket", "other"}
SeparatorArgs == {"char", "empty", "two", "nonstr"}
LockArgs == {"default", "lock", "other"}
QueueArgs == {"default", "queue", "other"}

\* isinstance(x, Lock): Lock must be a type, else isinstance itself raises
IsInstanceLock(isType, x) ==
  IF ~isType THEN "TypeError" ELSE IF x = "other" THEN "False" ELSE "True"

\* the argument checks in their order; "ok" when the attributes get set
ConnectionInit(isType, address, sock, sep, lock, queue) ==
  IF address # "tuple" THEN "TypeError"
  ELSE IF sock # "socket" THEN "TypeError"
  ELSE IF sep # "char" THEN "ValueError"
  ELSE IF IsInstanceLock(isType, lock) # "True" THEN "TypeError"
  ELSE IF queue = "other" THEN "TypeError"
  ELSE IF address = "None" /\ sock = "None" THEN "ValueError"
  ELSE "ok"

\* a ClientHandler whose construction succeeds
ClientHandlerBuilt(isType) == "ok"

\* ClientHandler.__init__: Connection.__init__(self, sock=sock)
ClientHandlerInit(isType) ==
  ConnectionInit(isType, "None", "socket", "char", "default", "default")

(***************************************************************************)
(* Connection: _check_ready, send, receive, close; Client.run, close       *)
(***************************************************************************)
Threads == {"run", "app"}
Attributes == <<"socket", "socket_lock", "message_queue", "separator">>
AllSet == [a \in {"socket", "socket_lock", "message_queue", "separator"} |-> "ok"]

\* what an object mixing in Connection may have set: everything (as
\* Client.__init__ does), or one attribute left out or of the wrong type
AttrConfigs ==
  {AllSet} \cup
  {[AllSet EXCEPT ![a] = d] :
     a \in {"socket", "socket_lock", "message_queue", "separator"},
     d \in {"missing", "wrongtype"}}

\* _check_ready: "True", or the exception its loop raises first
RECURSIVE CheckFrom(_, _, _)
CheckFrom(isType, at, i) ==
  IF i > Len(Attributes) THEN "True"
  ELSE LET a == Attributes[i]
       IN  IF at[a] = "missing" THEN "AttributeError"
           ELSE IF a = "socket_lock" /\ ~isType THEN "TypeError"
           ELSE IF at[a] = "wrongtype" THEN "TypeError"
           ELSE CheckFrom(isType, at, i + 1)

CheckReady(isType, at) == CheckFrom(isType, at, 1)

ExitMsg == <<"e", "x", "i", "t">>
NonStr == <<"not a str">>
NoneMsg == <<"None">>
NoCall == [message |-> <<>>, error |-> FALSE, acquired |-> FALSE, wrote |-> FALSE,
           inclose |-> FALSE]
NoSend == [message |-> <<>>, error |-> FALSE, acquired |-> FALSE, wrote |-> FALSE,
           result |-> "none"]

SepBytes == Encode(<<separator>>)

\* the messages the peer sends: non-empty, without the separator
PeerMsgs ==
  {m \in {<<"a">>, <<"eacute">>, <<"+", "a">>} :
     \A i \in 1..Len(m) : m[i] # separator}
AppMsgs == {<<"a">>, <<"surrogate">>, NonStr}

\* the loop over the split elements: decode, skip "", put; stops where
\* decode raises
RECURSIVE PutAll(_, _)
PutAll(q, elems) ==
  IF elems = <<>> THEN [queue |-> q, ok |-> TRUE]
  ELSE LET e == Decode(Head(elems))
       IN  IF e = NoStr THEN [queue |-> q, ok |-> FALSE]
           ELSE IF e = <<>> THEN PutAll(q, Tail(elems))
           ELSE PutAll(Append(q, e), Tail(elems))

Min(a, b) == IF a < b THEN a ELSE b

\* how a call of send() or close() ends for thread t: the application
\* thread goes on; in Client.run, which has no handler, an exception ends the
\* thread and a return from close() ends run()
Leave(t, exception) ==
  IF t = "app" THEN "idle" ELSE IF exception THEN "raised" ELSE "done"

\* how send() ends: inside close() a returned value goes on to
\* socket.close(), an exception leaves close() as well
SendExit(t, c, result) ==
  /\ lastSend' = [lastSend EXCEPT ![t] =
       [message |-> c.message, error |-> c.error, acquired |-> c.acquired,
        wrote |-> c.wrote, result |-> result]]
  /\ call' = [call EXCEPT ![t] = NoCall]
  /\ pc' = [pc EXCEPT ![t] =
       IF result \in {"True", "False"}
       THEN (IF c.inclose THEN "close_sock" ELSE Leave(t, FALSE))
       ELSE Leave(t, TRUE)]

\* send, up to the lock: the isinstance check of the message, then
\* _check_ready, whose exception leaves send whatever the error flag is (it
\* never returns False, so the branch under it is never taken)
SendBegin(t, c) ==
  LET r == CheckReady(lockIsType, attrs)
  IN  IF c.message = NonStr THEN SendExit(t, c, "TypeError")
      ELSE IF r # "True" THEN SendExit(t, c, r)
      ELSE /\ pc' = [pc EXCEPT ![t] = "send_acquire"]
           /\ call' = [call EXCEPT ![t] = c]
           /\ UNCHANGED lastSend

\* Connection.close, up to the lock: _check_ready
CloseBegin(t, c) ==
  /\ IF CheckReady(lockIsType, attrs) = "True"
     THEN /\ pc' = [pc EXCEPT ![t] = "close_acquire"]
          /\ call' = [call EXCEPT ![t] = c]
     ELSE /\ pc' = [pc EXCEPT ![t] = Leave(t, TRUE)]
          /\ call' = [call EXCEPT ![t] = NoCall]
  /\ UNCHANGED lastSend

\* Client.run: the exit check; then update(), which is receive() up to the
\* lock (_check_ready), or, with the exit signal, Connection.close(self, "exit")
RunLoop ==
  /\ pc["run"] = "loop"
  /\ IF client_exit_queue > 0
     THEN CloseBegin("run", [NoCall EXCEPT !.message = ExitMsg, !.inclose = TRUE])
     ELSE /\ pc' = [pc EXCEPT !["run"] =
                     IF CheckReady(lockIsType, attrs) = "True"
                     THEN "recv_acquire" ELSE "raised"]
          /\ UNCHANGED <<call, lastSend>>
  /\ UNCHANGED <<attrs, separator, socket_lock, sockClosed, peerClosed, inbuf,
                 sentMsgs, nread, message_queue, total, wait,
                 client_exit_queue, outbuf, nAppCalls>>
  /\ UNCHANGED <<lockIsType, ctorVars, srvVars>>

\* receive: socket_lock.acquire(), setblocking and settimeout (which raise
\* OSError on a closed socket, outside any try: the lock stays held),
\* total = b"", wait = False
RecvAcquire ==
  /\ pc["run"] = "recv_acquire"
  /\ socket_lock = "free"
  /\ socket_lock' = "run"
  /\ total' = <<>>
  /\ wait' = FALSE
  /\ pc' = [pc EXCEPT !["run"] = IF sockClosed THEN "raised" ELSE "recv_loop"]
  /\ UNCHANGED <<attrs, separator, sockClosed, peerClosed, inbuf, sentMsgs,
                 nread, message_queue, call, lastSend, client_exit_queue,
                 outbuf, nAppCalls>>
  /\ UNCHANGED <<lockIsType, ctorVars, srvVars>>

\* receive: recv(buffer) returns 1..buffer bytes of the stream
RecvRead ==
  /\ pc["run"] = "recv_loop"
  /\ inbuf # <<>>
  /\ \E k \in 1..Min(BufferSize, Len(inbuf)) :
       /\ wait' = (inbuf[k] # SepBytes[1])
       /\ total' = total \o SubSeq(inbuf, 1, k)
       /\ inbuf' = SubSeq(inbuf, k + 1, Len(inbuf))
       /\ nread' = nread + k
  /\ UNCHANGED <<attrs, separator, socket_lock, sockClosed, peerClosed,
                 sentMsgs, message_queue, pc, call, lastSend,
                 client_exit_queue, outbuf, nAppCalls>>
  /\ UNCHANGED <<lockIsType, ctorVars, srvVars>>

\* receive: recv returns b"" once the peer has closed; message[-1] raises
\* IndexError, which the except clause does not catch: the lock stays held
RecvEof ==
  /\ pc["run"] = "recv_loop"
  /\ inbuf = <<>>
  /\ peerClosed
  /\ pc' = [pc EXCEPT !["run"] = "raised"]
  /\ UNCHANGED <<attrs, separator, socket_lock, sockClosed, peerClosed, inbuf,
                 sentMsgs, nread, message_queue, total, wait, call, lastSend,
                 client_exit_queue, outbuf, nAppCalls>>
  /\ UNCHANGED <<lockIsType, ctorVars, srvVars>>

\* receive: recv times out (the bytes sent have not arrived yet). With wait
\* set the loop goes round again; otherwise it breaks, releases the lock,
\* splits total and puts the decoded non-empty elements
RecvTimeout ==
  /\ pc["run"] = "recv_loop"
  /\ ~(inbuf = <<>> /\ peerClosed)
  /\ IF wait
     THEN UNCHANGED <<socket_lock, message_queue, pc>>
     ELSE LET r == PutAll(message_queue, Split(total, SepBytes))
          IN  /\ socket_lock' = "free"
              /\ message_queue' = r.queue
              /\ pc' = [pc EXCEPT !["run"] = IF r.ok THEN "loop" ELSE "raised"]
  /\ UNCHANGED <<attrs, separator, sockClosed, peerClosed, inbuf, sentMsgs,
                 nread, total, wait, call, lastSend, client_exit_queue, outbuf,
                 nAppCalls>>
  /\ UNCHANGED <<lockIsType, ctorVars, srvVars>>

\* send taking the socket without waiting for the lock
SendAcquireNoLock(t) ==
  /\ pc[t] = "send_acquire"
  /\ socket_lock' = t
  /\ call' = [call EXCEPT ![t].acquired = TRUE]
  /\ pc' = [pc EXCEPT ![t] = "send_write"]
  /\ UNCHANGED <<attrs, separator, sockClosed, peerClosed, inbuf, sentMsgs,
                 nread, message_queue, total, wait, lastSend,
                 client_exit_queue, outbuf, nAppCalls>>
  /\ UNCHANGED <<lockIsType, ctorVars, srvVars>>

\* send: socket_lock.acquire(); the Lock is not reentrant
SendAcquire(t) ==
  /\ pc[t] = "send_acquire"
  /\ socket_lock = "free"
  /\ socket_lock' = t
  /\ call' = [call EXCEPT ![t].acquired = TRUE]
  /\ pc' = [pc EXCEPT ![t] = "send_write"]
  /\ UNCHANGED <<attrs, separator, sockClosed, peerClosed, inbuf, sentMsgs,
                 nread, message_queue, total, wait, lastSend,
                 client_exit_queue, outbuf, nAppCalls>>
  /\ UNCHANGED <<lockIsType, ctorVars, srvVars>>

\* send: socket.send((message + separator).encode()) inside the try. An
\* encoding error is no socket error: it leaves through no except clause.
\* A socket error releases the lock, then returns False or is re-raised
SendWrite(t) ==
  /\ pc[t] = "send_write"
  /\ LET c == call[t]
         data == c.message \o <<separator>>
     IN  IF ~CanEncode(data)
         THEN /\ SendExit(t, c, "UnicodeEncodeError")
              /\ UNCHANGED <<socket_lock, outbuf>>
         ELSE \E fault \in (IF sockClosed THEN {TRUE} ELSE BOOLEAN) :
                IF fault
                THEN /\ socket_lock' = "free"
                     /\ SendExit(t, c, IF c.error THEN "OSError" ELSE "False")
                     /\ UNCHANGED outbuf
                ELSE /\ outbuf' = outbuf \o Encode(data)
                     /\ socket_lock' = "free"
                     /\ SendExit(t, [c EXCEPT !.wrote = TRUE], "True")
  /\ UNCHANGED <<attrs, separator, sockClosed, peerClosed, inbuf, sentMsgs,
                 nread, message_queue, total, wait, client_exit_queue, nAppCalls>>
  /\ UNCHANGED <<lockIsType, ctorVars, srvVars>>

\* Connection.close: socket_lock.acquire(), then, with a message,
\* self.send(message) while the lock is held
CloseAcquire(t) ==
  /\ pc[t] = "close_acquire"
  /\ socket_lock = "free"
  /\ socket_lock' = t
  /\ IF call[t].message = NoneMsg
     THEN /\ pc' = [pc EXCEPT ![t] = "close_sock"]
          /\ UNCHANGED <<call, lastSend>>
     ELSE SendBegin(t, call[t])
  /\ UNCHANGED <<attrs, separator, sockClosed, peerClosed, inbuf, sentMsgs,
                 nread, message_queue, total, wait, client_exit_queue, outbuf,
                 nAppCalls>>
  /\ UNCHANGED <<lockIsType, ctorVars, srvVars>>

\* Connection.close: socket.close(), socket_lock.release()
CloseSock(t) ==
  /\ pc[t] = "close_sock"
  /\ sockClosed' = TRUE
  /\ socket_lock' = "free"
  /\ pc' = [pc EXCEPT ![t] = Leave(t, FALSE)]
  /\ call' = [call EXCEPT ![t] = NoCall]
  /\ UNCHANGED <<attrs, separator, peerClosed, inbuf, sentMsgs, nread,
                 message_queue, total, wait, lastSend,
                 client_exit_queue, outbuf, nAppCalls>>
  /\ UNCHANGED <<lockIsType, ctorVars, srvVars>>

\* the application calls send(message, error)
AppSend ==
  /\ pc["app"] = "idle"
  /\ nAppCalls < MaxAppCalls
  /\ \E m \in AppMsgs, e \in BOOLEAN :
       SendBegin("app", [NoCall EXCEPT !.message = m, !.error = e])
  /\ nAppCalls' = nAppCalls + 1
  /\ UNCHANGED <<attrs, separator, socket_lock, sockClosed, peerClosed, inbuf,
                 sentMsgs, nread, message_queue, total, wait,
                 client_exit_queue, outbuf>>
  /\ UNCHANGED <<lockIsType, ctorVars, srvVars>>

\* the application calls Connection.close(message) on the object
AppCloseConn ==
  /\ pc["app"] = "idle"
  /\ nAppCalls < MaxAppCalls
  /\ \E m \in {NoneMsg, ExitMsg} :
       CloseBegin("app", [NoCall EXCEPT !.message = m, !.inclose = TRUE])
  /\ nAppCalls' = nAppCalls + 1
  /\ UNCHANGED <<attrs, separator, socket_lock, sockClosed, peerClosed, inbuf,
                 sentMsgs, nread, message_queue, total, wait,
                 client_exit_queue, outbuf>>
  /\ UNCHANGED <<lockIsType, ctorVars, srvVars>>

\* the application calls Client.connect, which makes no readiness check;
\* lastSend describes a thread's latest call, so it is reset
AppConnect ==
  /\ pc["app"] = "idle"
  /\ nAppCalls < MaxAppCalls
  /\ pc' = [pc EXCEPT !["app"] = "connect_acquire"]
  /\ lastSend' = [lastSend EXCEPT !["app"] = NoSend]
  /\ nAppCalls' = nAppCalls + 1
  /\ UNCHANGED <<attrs, separator, socket_lock, sockClosed, peerClosed, inbuf,
                 sentMsgs, nread, message_queue, total, wait, call,
                 client_exit_queue, outbuf>>
  /\ UNCHANGED <<lockIsType, ctorVars, srvVars>>

\* Client.connect: socket_lock.acquire()
ConnectAcquire ==
  /\ pc["app"] = "connect_acquire"
  /\ socket_lock = "free"
  /\ socket_lock' = "app"
  /\ pc' = [pc EXCEPT !["app"] = "connecting"]
  /\ UNCHANGED <<attrs, separator, sockClosed, peerClosed, inbuf, sentMsgs,
                 nread, message_queue, total, wait, call, lastSend,
                 client_exit_queue, outbuf, nAppCalls>>
  /\ UNCHANGED <<lockIsType, ctorVars, srvVars>>

\* Client.connect: gettimeout, settimeout, socket.connect. The socket is
\* connected already, or closed, so OSError is raised, outside any try: the
\* release after it is not reached and the lock stays held
ConnectRaise ==
  /\ pc["app"] = "connecting"
  /\ pc' = [pc EXCEPT !["app"] = Leave("app", TRUE)]
  /\ UNCHANGED <<attrs, separator, socket_lock, sockClosed, peerClosed, inbuf,
                 sentMsgs, nread, message_queue, total, wait, call, lastSend,
                 client_exit_queue, outbuf, nAppCalls>>
  /\ UNCHANGED <<lockIsType, ctorVars, srvVars>>

\* a close that puts the exit signal and closes the socket itself
ClientCloseSocket ==
  /\ nAppCalls < MaxAppCalls
  /\ client_exit_queue' = client_exit_queue + 1
  /\ sockClosed' = TRUE
  /\ nAppCalls' = nAppCalls + 1
  /\ UNCHANGED <<attrs, separator, socket_lock, peerClosed, inbuf,
                 sentMsgs, nread, message_queue, total, wait, pc, call,
                 lastSend, outbuf>>
  /\ UNCHANGED <<lockIsType, ctorVars, srvVars>>

\* Client.close: exit_queue.put(True), nothing else
ClientClose ==
  /\ nAppCalls < MaxAppCalls
  /\ client_exit_queue' = client_exit_queue + 1
  /\ nAppCalls' = nAppCalls + 1
  /\ UNCHANGED <<attrs, separator, socket_lock, sockClosed, peerClosed, inbuf,
                 sentMsgs, nread, message_queue, total, wait, pc, call,
                 lastSend, outbuf>>
  /\ UNCHANGED <<lockIsType, ctorVars, srvVars>>

\* the length of the stream up to the end of the n-th message sent
RECURSIVE FrameEnd(_)
FrameEnd(n) ==
  IF n = 0 THEN 0
  ELSE FrameEnd(n - 1) + Len(Encode(sentMsgs[n] \o <<separator>>))

\* the peer has written a message and not yet the separator after it
PeerMid == nread + Len(inbuf) < FrameEnd(Len(sentMsgs))

\* the peer's Connection.send of one message: its bytes, then the separator's
PeerSend ==
  /\ ~peerClosed
  /\ ~PeerMid
  /\ Len(sentMsgs) < MaxPeerMsgs
  /\ \E m \in PeerMsgs :
       /\ inbuf' = inbuf \o Encode(m \o <<separator>>)
       /\ sentMsgs' = Append(sentMsgs, m)
  /\ UNCHANGED <<attrs, separator, socket_lock, sockClosed, peerClosed, nread,
                 message_queue, total, wait, pc, call, lastSend,
                 client_exit_queue, outbuf, nAppCalls>>
  /\ UNCHANGED <<lockIsType, ctorVars, srvVars>>

\* the peer writes the bytes of a message and, for now, no separator
PeerSendBody ==
  /\ ~peerClosed
  /\ ~PeerMid
  /\ Len(sentMsgs) < MaxPeerMsgs
  /\ \E m \in PeerMsgs :
       /\ inbuf' = inbuf \o Encode(m)
       /\ sentMsgs' = Append(sentMsgs, m)
  /\ UNCHANGED <<attrs, separator, socket_lock, sockClosed, peerClosed, nread,
                 message_queue, total, wait, pc, call, lastSend,
                 client_exit_queue, outbuf, nAppCalls>>
  /\ UNCHANGED <<lockIsType, ctorVars, srvVars>>

\* the peer writes the separator that was still to come
PeerSendSep ==
  /\ ~peerClosed
  /\ PeerMid
  /\ inbuf' = inbuf \o SepBytes
  /\ UNCHANGED <<attrs, separator, socket_lock, sockClosed, peerClosed,
                 sentMsgs, nread, message_queue, total, wait, pc, call,
                 lastSend, client_exit_queue, outbuf, nAppCalls>>
  /\ UNCHANGED <<lockIsType, ctorVars, srvVars>>

\* the peer closes its end of the stream
PeerClose ==
  /\ ~peerClosed
  /\ peerClosed' = TRUE
  /\ UNCHANGED <<attrs, separator, socket_lock, sockClosed, inbuf, sentMsgs,
                 nread, message_queue, total, wait, pc, call, lastSend,
                 client_exit_queue, outbuf, nAppCalls>>
  /\ UNCHANGED <<lockIsType, ctorVars, srvVars>>

\* Connection(address, sock, separator, lock, queue) called once
Construct ==
  /\ ctorArgs # <<>>
  /\ ctorResult = "none"
  /\ ctorResult' = ConnectionInit(lockIsType, ctorArgs.address, ctorArgs.sock,
                                  ctorArgs.separator, ctorArgs.lock, ctorArgs.queue)
  /\ UNCHANGED <<lockIsType, ctorArgs, made, queues, connVars, srvVars>>

\* Server.__init__: the default of amount
Amount == 8

NoFault == [at |-> "none", exc |-> "none"]

\* the Lock and the Queue made once, when the def statement of __init__ is
\* executed, as the defaults of lock and queue; objects passed in are fresh
DefaultObject == 0
Objects == 0..MaxObjects
NoQueues == [q \in Objects |-> <<>>]

\* the object an argument left to its default, or passed by the n-th caller
ArgObject(arg, n) == IF arg = "default" THEN DefaultObject ELSE n

\* Connection.__init__ called for one more object, with a valid socket, the
\* default separator, with or without an address, lock and queue; where it
\* succeeds the object keeps the lock and the queue it was given
NewConnection ==
  /\ Len(made) < MaxObjects
  /\ \E address \in {"None", "tuple"}, lock \in {"default", "lock"},
        queue \in {"default", "queue"} :
       LET n == Len(made) + 1
           r == ConnectionInit(lockIsType, address, "socket", "char", lock, queue)
       IN  made' = Append(made,
                     [ok |-> r = "ok", address |-> address,
                      socket_lock |-> ArgObject(lock, n),
                      message_queue |-> ArgObject(queue, n)])
  /\ UNCHANGED <<lockIsType, ctorArgs, ctorResult, queues, connVars, srvVars>>

\* receive on a constructed object: a message read from its own socket is
\* put on self.message_queue
ReceivePut ==
  /\ \E i \in DOMAIN made :
       /\ made[i].ok
       /\ Len(queues[made[i].message_queue]) < MaxPeerMsgs
       /\ queues' = [queues EXCEPT ![made[i].message_queue] = Append(@, i)]
  /\ UNCHANGED <<lockIsType, ctorArgs, ctorResult, made, connVars, srvVars>>

CtorIdle ==
  /\ ctorArgs = <<>> /\ ctorResult = "none" /\ made = <<>> /\ queues = NoQueues

SrvIdle ==
  /\ client_handlers = <<>> /\ banned = <<>> /\ server_queue = <<>>
  /\ exit_queue = 0 /\ pending = <<>> /\ pcS = "unstarted" /\ idx = 0
  /\ listenSock = "bound" /\ peerSock = <<>> /\ handlerClosed = {}
  /\ updated = {} /\ raised = {} /\ exitPosted = {} /\ banApplied = {}
  /\ nConnects = 0 /\ nStops = 0 /\ srvFault = NoFault /\ amount = Amount
  /\ removed = {}

ConnIdle ==
  /\ attrs = AllSet /\ separator = "+" /\ socket_lock = "free"
  /\ sockClosed = FALSE /\ peerClosed = FALSE /\ inbuf = <<>>
  /\ sentMsgs = <<>> /\ nread = 0 /\ message_queue = <<>> /\ total = <<>>
  /\ wait = FALSE /\ pc = [t \in Threads |-> "idle"]
  /\ call = [t \in Threads |-> NoCall] /\ lastSend = [t \in Threads |-> NoSend]
  /\ client_exit_queue = 0 /\ outbuf = <<>> /\ nAppCalls = 0

\* a connected Client (or another object mixing in Connection) whose thread
\* has been started; the separator is any single character
InitConn ==
  /\ lockIsType \in BOOLEAN
  /\ CtorIdle /\ SrvIdle
  /\ attrs \in AttrConfigs
  /\ separator \in {"+", "eacute"}
  /\ socket_lock = "free"
  /\ sockClosed = FALSE /\ peerClosed = FALSE /\ inbuf = <<>>
  /\ sentMsgs = <<>> /\ nread = 0 /\ message_queue = <<>> /\ total = <<>>
  /\ wait = FALSE /\ pc = [t \in Threads |-> IF t = "run" THEN "loop" ELSE "idle"]
  /\ call = [t \in Threads |-> NoCall] /\ lastSend = [t \in Threads |-> NoSend]
  /\ client_exit_queue = 0 /\ outbuf = <<>> /\ nAppCalls = 0

RunNext ==
  \/ RunLoop \/ RecvAcquire \/ RecvRead \/ RecvEof \/ RecvTimeout
  \/ CloseAcquire("run") \/ CloseSock("run")
  \/ SendAcquire("run") \/ SendWrite("run")

AppNext ==
  \/ AppSend \/ AppCloseConn \/ ClientClose
  \/ AppConnect \/ ConnectAcquire \/ ConnectRaise
  \/ CloseAcquire("app") \/ CloseSock("app")
  \/ SendAcquire("app") \/ SendWrite("app")

PeerNext == PeerSend \/ PeerSendBody \/ PeerSendSep \/ PeerClose

NextConn == RunNext \/ AppNext \/ PeerNext

SpecConn == InitConn /\ [][NextConn]_vars

(***************************************************************************)
(* Server.run, do_action_for_server_queue, stop; ClientHandler             *)
(***************************************************************************)
Handlers == 1..MaxHandlers
Commands == {"ban", "exit", "other"}
NoHandler == 0

\* the peer address of a handler; the connecting peers have the same ones
AddrOf(h) == h
Ips == Handlers

Range(q) == {q[i] : i \in DOMAIN q}

\* ClientHandler.__init__ sets server_queue and logger and nothing else: a
\* handler has no attribute address and, not being a Thread, no name
HasAddress == FALSE
HasName == FALSE

\* list.remove(h): the list without its first h
RECURSIVE Remove(_, _)
Remove(q, h) ==
  IF q = <<>> THEN <<>>
  ELSE IF Head(q) = h THEN Tail(q) ELSE <<Head(q)>> \o Remove(Tail(q), h)

\* the exception that ends run(), and where
Crash(at, exc) ==
  /\ pcS' = "crashed"
  /\ srvFault' = [at |-> at, exc |-> exc]

\* run: socket.listen(amount): amount is the length of the backlog
SrvListen ==
  /\ pcS = "start"
  /\ listenSock' = "listening"
  /\ pcS' = "check1"
  /\ UNCHANGED <<client_handlers, banned, server_queue, exit_queue, pending,
                 idx, peerSock, handlerClosed, updated, raised, exitPosted,
                 banApplied, nConnects, nStops, srvFault>>
  /\ UNCHANGED <<lockIsType, amount, removed, ctorVars, connVars>>

\* a peer connects: it waits in the backlog until accepted
PeerConnect ==
  /\ listenSock = "listening"
  /\ nConnects < MaxConnects
  /\ Len(pending) < amount
  /\ \E ip \in Ips : pending' = Append(pending, ip)
  /\ nConnects' = nConnects + 1
  /\ UNCHANGED <<client_handlers, banned, server_queue, exit_queue, pcS, idx,
                 listenSock, peerSock, handlerClosed, updated, raised,
                 exitPosted, banApplied, nStops, srvFault>>
  /\ UNCHANGED <<lockIsType, amount, removed, ctorVars, connVars>>

\* stop (also close, __exit__): exit_queue.put(True)
SrvStop ==
  /\ nStops < MaxStops
  /\ exit_queue' = exit_queue + 1
  /\ nStops' = nStops + 1
  /\ UNCHANGED <<client_handlers, banned, server_queue, pending, pcS, idx,
                 listenSock, peerSock, handlerClosed, updated, raised,
                 exitPosted, banApplied, nConnects, srvFault>>
  /\ UNCHANGED <<lockIsType, amount, removed, ctorVars, connVars>>

\* run: the exit check at the top of the loop; get() takes the True
ExitCheck1 ==
  /\ pcS = "check1"
  /\ IF exit_queue > 0
     THEN /\ exit_queue' = exit_queue - 1
          /\ pcS' = "closing"
          /\ idx' = 1
     ELSE /\ pcS' = "accept"
          /\ UNCHANGED <<exit_queue, idx>>
  /\ UNCHANGED <<client_handlers, banned, server_queue, pending, listenSock,
                 peerSock, handlerClosed, updated, raised, exitPosted,
                 banApplied, nConnects, nStops, srvFault>>
  /\ UNCHANGED <<lockIsType, amount, removed, ctorVars, connVars>>

\* run: select and accept of at most one pending connection; a peer that is
\* not banned gets a ClientHandler, whose constructor may raise; a banned
\* one is sent b"ban" and closed
Accept ==
  /\ pcS = "accept"
  /\ IF pending = <<>>
     THEN /\ pcS' = "check2"
          /\ UNCHANGED <<client_handlers, pending, peerSock, srvFault>>
     ELSE LET ip == Head(pending)
              new == MaxHandlers + 1 + Len(peerSock)
              conn == [ip |-> ip, open |-> TRUE, gotBan |-> FALSE,
                       handler |-> NoHandler,
                       afterBan |-> \E h \in banApplied : AddrOf(h) = ip]
          IN  /\ pending' = Tail(pending)
              /\ IF ip \notin Range(banned)
                 THEN IF ClientHandlerInit(lockIsType) = "ok"
                      THEN /\ client_handlers' = Append(client_handlers, new)
                           /\ peerSock' = Append(peerSock, [conn EXCEPT !.handler = new])
                           /\ pcS' = "check2"
                           /\ UNCHANGED srvFault
                      ELSE /\ Crash("accept", ClientHandlerInit(lockIsType))
                           /\ peerSock' = Append(peerSock, conn)
                           /\ UNCHANGED client_handlers
                 ELSE /\ peerSock' = Append(peerSock,
                                      [conn EXCEPT !.open = FALSE, !.gotBan = TRUE])
                      /\ pcS' = "check2"
                      /\ UNCHANGED <<client_handlers, srvFault>>
  /\ UNCHANGED <<banned, server_queue, exit_queue, idx, listenSock,
                 handlerClosed, updated, raised, exitPosted, banApplied,
                 nConnects, nStops>>
  /\ UNCHANGED <<lockIsType, amount, removed, ctorVars, connVars>>

\* run without the second exit check: straight on to the handlers
NoExitCheck2 ==
  /\ pcS = "check2"
  /\ pcS' = "dispatch"
  /\ updated' = {}
  /\ raised' = {}
  /\ exitPosted' = {}
  /\ idx' = 1
  /\ UNCHANGED <<client_handlers, banned, server_queue, exit_queue, pending,
                 listenSock, peerSock, handlerClosed, banApplied, nConnects,
                 nStops, srvFault>>
  /\ UNCHANGED <<lockIsType, amount, removed, ctorVars, connVars>>

\* run: the second exit check, before the handlers are updated
ExitCheck2 ==
  /\ pcS = "check2"
  /\ IF exit_queue > 0
     THEN /\ exit_queue' = exit_queue - 1
          /\ pcS' = "closing"
          /\ UNCHANGED <<updated, raised, exitPosted>>
     ELSE /\ pcS' = "dispatch"
          /\ updated' = {}
          /\ raised' = {}
          /\ exitPosted' = {}
          /\ UNCHANGED exit_queue
  /\ idx' = 1
  /\ UNCHANGED <<client_handlers, banned, server_queue, pending, listenSock,
                 peerSock, handlerClosed, banApplied, nConnects, nStops,
                 srvFault>>
  /\ UNCHANGED <<lockIsType, amount, removed, ctorVars, connVars>>

\* run: update() of the next handler in the list. update() is receive(),
\* which returns or raises (always, where _check_ready raises). The except
\* clause formats client_handler.address into its log line
Update ==
  /\ pcS = "dispatch"
  /\ idx <= Len(client_handlers)
  /\ LET h == client_handlers[idx]
     IN  \E fault \in (IF lockIsType THEN BOOLEAN ELSE {TRUE}) :
           IF ~fault
           THEN /\ updated' = updated \cup {h}
                /\ idx' = idx + 1
                /\ UNCHANGED <<raised, pcS, srvFault>>
           ELSE /\ raised' = raised \cup {h}
                /\ IF HasAddress
                   THEN /\ idx' = idx + 1
                        /\ UNCHANGED <<pcS, srvFault>>
                   ELSE /\ Crash("update", "AttributeError")
                        /\ UNCHANGED idx
                /\ UNCHANGED updated
  /\ UNCHANGED <<client_handlers, banned, server_queue, exit_queue, pending,
                 listenSock, peerSock, handlerClosed, exitPosted, banApplied,
                 nConnects, nStops>>
  /\ UNCHANGED <<lockIsType, amount, removed, ctorVars, connVars>>

\* the logic layered on a handler posts (handler, command) on the server
\* queue while the handlers are being updated
PostCommand ==
  /\ pcS = "dispatch"
  /\ Len(server_queue) < MaxQueue
  /\ \E h \in Range(client_handlers), c \in Commands :
       /\ server_queue' = Append(server_queue, <<h, c>>)
       /\ exitPosted' = IF c = "exit" THEN exitPosted \cup {h} ELSE exitPosted
  /\ UNCHANGED <<client_handlers, banned, exit_queue, pending, pcS, idx,
                 listenSock, peerSock, handlerClosed, updated, raised,
                 banApplied, nConnects, nStops, srvFault>>
  /\ UNCHANGED <<lockIsType, amount, removed, ctorVars, connVars>>

\* run: the for loop over the handlers is finished
DispatchDone ==
  /\ pcS = "dispatch"
  /\ idx > Len(client_handlers)
  /\ pcS' = "drain"
  /\ UNCHANGED <<client_handlers, banned, server_queue, exit_queue, pending,
                 idx, listenSock, peerSock, handlerClosed, updated, raised,
                 exitPosted, banApplied, nConnects, nStops, srvFault>>
  /\ UNCHANGED <<lockIsType, amount, removed, ctorVars, connVars>>

\* the drain as an if instead of a while: one command a cycle
DrainOnce(q) == FALSE

\* the drain loop's condition: another round while the queue is not empty
DrainAgain(q) == q # <<>>

\* do_action_for_server_queue on the command taken from the queue
DoAction ==
  /\ pcS = "drain"
  /\ server_queue # <<>>
  /\ LET h == Head(server_queue)[1]
         c == Head(server_queue)[2]
         rest == Tail(server_queue)
     IN  /\ server_queue' = rest
         /\ CASE c = "ban" ->
                  /\ banApplied' = banApplied \cup {h}
                  /\ IF HasAddress
                     THEN /\ banned' = Append(banned, AddrOf(h))
                          /\ pcS' = IF DrainAgain(rest) THEN "drain" ELSE "check1"
                          /\ UNCHANGED srvFault
                     ELSE /\ Crash("ban", "AttributeError")
                          /\ UNCHANGED banned
                  /\ UNCHANGED <<client_handlers, removed>>
              [] c = "exit" ->
                  /\ IF h \in Range(client_handlers)
                     THEN /\ client_handlers' = Remove(client_handlers, h)
                          /\ removed' = removed \cup {h}
                          /\ pcS' = IF DrainAgain(rest) THEN "drain" ELSE "check1"
                          /\ UNCHANGED srvFault
                     ELSE /\ Crash("exit", "ValueError")
                          /\ UNCHANGED <<client_handlers, removed>>
                  /\ UNCHANGED <<banned, banApplied>>
              [] OTHER ->
                  /\ pcS' = IF DrainAgain(rest) THEN "drain" ELSE "check1"
                  /\ UNCHANGED <<client_handlers, banned, banApplied, srvFault,
                                 removed>>
  /\ UNCHANGED <<exit_queue, pending, idx, listenSock, peerSock,
                 handlerClosed, updated, raised, exitPosted, nConnects, nStops>>
  /\ UNCHANGED <<lockIsType, amount, ctorVars, connVars>>

\* run: no command was posted in this cycle; the cycle ends
DrainEmpty ==
  /\ pcS = "drain"
  /\ server_queue = <<>>
  /\ pcS' = "check1"
  /\ UNCHANGED <<client_handlers, banned, server_queue, exit_queue, pending,
                 idx, listenSock, peerSock, handlerClosed, updated, raised,
                 exitPosted, banApplied, nConnects, nStops, srvFault>>
  /\ UNCHANGED <<lockIsType, amount, removed, ctorVars, connVars>>

\* run, after the loop: client_handler.close() (Connection.close with no
\* message: _check_ready, the lock, socket.close()), then a log line that
\* formats client_handler.name
CloseHandler ==
  /\ pcS = "closing"
  /\ idx <= Len(client_handlers)
  /\ LET h == client_handlers[idx]
     IN  IF CheckReady(lockIsType, AllSet) # "True"
         THEN /\ Crash("close", CheckReady(lockIsType, AllSet))
              /\ UNCHANGED <<handlerClosed, idx>>
         ELSE /\ handlerClosed' = handlerClosed \cup {h}
              /\ IF HasName
                 THEN /\ idx' = idx + 1
                      /\ UNCHANGED <<pcS, srvFault>>
                 ELSE /\ Crash("close", "AttributeError")
                      /\ UNCHANGED idx
  /\ UNCHANGED <<client_handlers, banned, server_queue, exit_queue, pending,
                 listenSock, peerSock, updated, raised, exitPosted, banApplied,
                 nConnects, nStops>>
  /\ UNCHANGED <<lockIsType, amount, removed, ctorVars, connVars>>

\* run: every handler has been closed; the listening socket is closed
CloseListen ==
  /\ pcS = "closing"
  /\ idx > Len(client_handlers)
  /\ listenSock' = "closed"
  /\ pcS' = "done"
  /\ UNCHANGED <<client_handlers, banned, server_queue, exit_queue, pending,
                 idx, peerSock, handlerClosed, updated, raised, exitPosted,
                 banApplied, nConnects, nStops, srvFault>>
  /\ UNCHANGED <<lockIsType, amount, removed, ctorVars, connVars>>

\* the permutations of the subsets of S
RECURSIVE Arrangements(_)
Arrangements(S) ==
  IF S = {} THEN {<<>>}
  ELSE {<<>>} \cup UNION {{<<x>> \o q : q \in Arrangements(S \ {x})} : x \in S}

\* a Server after __init__, run() about to start, with the handlers that
\* are in its (public) list client_handlers by then, no more than amount;
\* accept alone puts none there, see Accept. amount is the default or 1
InitServer ==
  /\ lockIsType \in BOOLEAN
  /\ CtorIdle /\ ConnIdle
  /\ amount \in {1, Amount}
  /\ client_handlers \in {q \in Arrangements(Handlers) : Len(q) <= amount}
  /\ banned = <<>> /\ server_queue = <<>> /\ exit_queue = 0
  /\ pending = <<>> /\ pcS = "start" /\ idx = 0 /\ listenSock = "bound"
  /\ peerSock = <<>> /\ handlerClosed = {} /\ updated = {} /\ raised = {}
  /\ exitPosted = {} /\ banApplied = {} /\ nConnects = 0 /\ nStops = 0
  /\ srvFault = NoFault /\ removed = {}

NextServer ==
  \/ SrvListen \/ PeerConnect \/ SrvStop \/ ExitCheck1 \/ Accept \/ ExitCheck2
  \/ Update \/ PostCommand \/ DispatchDone \/ DoAction \/ DrainEmpty
  \/ CloseHandler \/ CloseListen

SpecServer == InitServer /\ [][NextServer]_vars

InitCtor ==
  /\ lockIsType \in BOOLEAN
  /\ ctorArgs \in [address : AddressArgs, sock : SockArgs,
                    separator : SeparatorArgs, lock : LockArgs, queue : QueueArgs]
  /\ ctorResult = "none"
  /\ made = <<>> /\ queues = NoQueues
  /\ ConnIdle /\ SrvIdle

NextCtor == Construct

SpecCtor == InitCtor /\ [][NextCtor]_vars

\* several Connections (ClientHandlers) constructed in one process
InitObjects ==
  /\ lockIsType \in BOOLEAN
  /\ CtorIdle /\ ConnIdle /\ SrvIdle

NextObjects == NewConnection \/ ReceivePut

SpecObjects == InitObjects /\ [][NextObjects]_vars

(***************************************************************************)
(* Claims about Connection and Client                                      *)
(***************************************************************************)
ReceiveInProgress == pc["run"] = "recv_loop"

\* C1 (framing round-trip): while the peer keeps the stream open, whenever
\* no receive call is reading, the bytes read so far are exactly the frames
\* of the first n messages sent, for some n, and the message queue holds
\* exactly those n messages in sending order: nothing split, merged, lost or
\* empty, however recv chunked the bytes and wherever the calls ended.
C1_FramingRoundTrip ==
  (~peerClosed /\ ~ReceiveInProgress) =>
    \E n \in 0..Len(sentMsgs) :
      /\ nread = FrameEnd(n)
      /\ message_queue = SubSeq(sentMsgs, 1, n)

\* C5 (send lock discipline): once a send() call that acquired the socket
\* lock has left send, by return or by exception, its thread does not hold
\* the socket lock.
C5_SendReleasesLock ==
  \A t \in Threads :
    (pc[t] = "idle" /\ lastSend[t].acquired) => socket_lock # t

\* C6 (send outcome): where threading.Lock is a class, a send() of a str
\* message with error=False ends with True or False, True exactly when the
\* bytes were written; with error=True it ends with True when they were
\* written and with an exception otherwise.
C6_SendOutcome ==
  LET r == lastSend["app"]
  IN  (lockIsType /\ r.result # "none" /\ r.message # NonStr) =>
        /\ ~r.error => /\ r.result \in {"True", "False"}
                       /\ (r.result = "True") <=> r.wrote
        /\ r.error => /\ r.wrote => r.result = "True"
                      /\ ~r.wrote => r.result \notin {"True", "False"}

\* C7 (construction): where threading.Lock is a class, Connection.__init__
\* succeeds exactly when no argument is mistyped and at least one of address
\* and sock is given (so also with a socket and no address, the way
\* ClientHandler.__init__ calls it).
C7_ConstructionSucceeds ==
  (lockIsType /\ ctorResult # "none") =>
    (ctorResult = "ok" <=>
       /\ ctorArgs.address \in {"None", "tuple"}
       /\ ctorArgs.sock \in {"None", "socket"}
       /\ ctorArgs.separator = "char"
       /\ ctorArgs.lock # "other"
       /\ ctorArgs.queue # "other"
       /\ ~(ctorArgs.address = "None" /\ ctorArgs.sock = "None"))

RunFinished ==
  /\ pc["run"] = "done"
  /\ sockClosed
  /\ lastSend["run"].message = ExitMsg
  /\ lastSend["run"].wrote

\* C9 (client shutdown): for a Client (all four attributes set) where
\* threading.Lock is a class, once Client.close() has posted the exit
\* signal, the run thread has sent "exit" and the separator, closed the
\* socket and ended, or it can still take a step towards that, or it waits
\* for the socket lock while the application thread holds it.
C9_ClientShutdown ==
  (lockIsType /\ attrs = AllSet /\ client_exit_queue > 0) =>
    \/ RunFinished
    \/ ENABLED RunNext
    \/ socket_lock = "app"

C4_CommandLinearization ==
  pcS = "accept" =>
    /\ server_queue = <<>>
    /\ \A h \in exitPosted : h \notin Range(client_handlers)

\* C4's case: an accept phase begins after a dispatch phase in which "exit"
\* was posted for a handler
C4_Witness == pcS = "accept" /\ exitPosted # {}

\* C8 (one accept per cycle): every connection accepted from a peer that was
\* not banned has a ClientHandler that was appended to the active list, and
\* every connection made is either still pending or has been accepted.
C8_OneAcceptPerCycle ==
  /\ \A i \in DOMAIN peerSock :
       ~peerSock[i].gotBan => peerSock[i].handler # NoHandler
  /\ nConnects = Len(pending) + Len(peerSock)

LoopExited == pcS \in {"closing", "done"} \/ srvFault.at = "close"
RunEnded == pcS \in {"done", "crashed"}

C11_CloseTerminates ==
  lockIsType =>
    \A t \in Threads :
      (call[t].inclose /\ call[t].message # NoneMsg /\ pc[t] = "send_acquire")
        => socket_lock # t

\* a thread is inside socket I/O: send's write, receive's reads, close's
\* socket.close(), connect
InIO(t) == pc[t] \in {"send_write", "recv_loop", "close_sock", "connecting"}

\* C14 (socket mutual exclusion): a thread inside socket I/O on the
\* Connection holds the socket lock, so no two threads are inside socket I/O
\* at the same time.
C14_SocketMutualExclusion ==
  /\ \A t \in Threads : InIO(t) => socket_lock = t
  /\ \A t, u \in Threads : (InIO(t) /\ InIO(u)) => t = u

\* C14's case: the application thread is writing in send while the run
\* thread, about to read in receive, waits for the lock
C14_Witness == pc["app"] = "send_write" /\ pc["run"] = "recv_acquire"

\* C15 (update returns): with a one-byte separator and the peer's stream
\* open, a thread in the read loop of receive can always go on by itself,
\* whatever the peer has written so far: read what is there, or at a timeout
\* leave the loop; it never depends on the peer writing more.
C15_UpdateReturns ==
  (separator = "+" /\ pc["run"] = "recv_loop" /\ ~peerClosed) =>
    ENABLED <<RunNext>>_vars

\* C16 (peer close during receive): when a read in receive returns no bytes
\* because the peer has closed the stream, the read loop is left, the socket
\* lock is released, receive returns to its caller, and the non-empty
\* fragments read so far are on the message queue, in order.
C16_PeerCloseDuringReceive ==
  [][(/\ pc["run"] = "recv_loop" /\ peerClosed /\ inbuf = <<>>
      /\ pc'["run"] # "recv_loop")
       => /\ pc'["run"] = "loop"
          /\ socket_lock' = "free"
          /\ message_queue' = PutAll(message_queue, Split(total, SepBytes)).queue]_vars

\* the run thread is inside Connection.close
RunInClose(p) == p["run"] \in {"close_acquire", "close_sock", "send_acquire", "send_write"}

\* C19 (Client.close frame): a step that puts the exit signal changes
\* nothing else of the Connection: nothing is sent, the socket lock and the
\* socket are as before, no thread moves; and the run thread enters
\* Connection.close, where the socket is closed, only with the exit signal
\* on the queue.
C19_ClientCloseFrame ==
  [][/\ client_exit_queue' # client_exit_queue =>
          /\ client_exit_queue' = client_exit_queue + 1
          /\ UNCHANGED <<socket_lock, sockClosed, outbuf, pc, call, lastSend,
                         message_queue, inbuf, total, wait, nread>>
     /\ (RunInClose(pc') /\ ~RunInClose(pc)) => client_exit_queue > 0]_vars

\* C19's case: Client.close() was called while the run thread is in
\* receive, holding the socket lock
C19_Witness ==
  client_exit_queue > 0 /\ pc["run"] = "recv_loop" /\ socket_lock = "run"

C18_BoundedShutdownLatency ==
  [][exit_queue > 0 =>
       /\ pcS' = "accept" => pcS = "accept"
       /\ pcS' = "dispatch" => pcS = "dispatch"]_vars

\* C18's case: stop() was called while the loop was running, after a
\* dispatch phase, and the loop has been left at an exit check
C18_Witness == pcS = "closing" /\ nStops > 0 /\ updated # {}

=============================================================================
